---- MODULE Spec2Model ----
(***************************************************************************)
(* Model of the collection hierarchy cache of metaqs-api:                  *)
(*   app/oeh_cache/oeh_cache.py   Cache (in-memory cache + cache.json)      *)
(*   app/oeh_elastic/oeh.py       OEHElastic (load/build/save, resolvers)   *)
(*   app/oeh_elastic/helper_classes.py  Bucket, Collection                  *)
(* The search backend, the edu-sharing directory and the file system are   *)
(* the environment: their answers are data chosen in Init, their failures  *)
(* are inputs of the steps that call them.                                  *)
(***************************************************************************)
EXTENDS Integers, Sequences, FiniteSets, TLC

VARIABLES
    backend,   \* what the search backend and the directory answer
    disk,      \* app/cache/cache.json
    cache,     \* OEHElastic.cache: the three fields of Cache
    pc,        \* position of the running OEHElastic.load_cache call
    call,      \* arguments and start state of the running / last load_cache call
    trace,     \* the calls made by the running / last load_cache call, in order
    outcome,   \* how the last load_cache call ended
    ret,       \* result of the last get_collection_children call
    info,      \* result of the last get_collection_info / get_fachportale call
    calls,     \* backend and directory calls of the running build_cache
    MAX_CONN_RETRIES,    \* the configured maximum of retries
    connection_retries,  \* OEHElastic.connection_retries, EduSharing.connection_retries
    query,     \* the running / last query_elastic or get_collections call
    feed,      \* the usage events the backend holds, newest first
    last_timestamp,      \* OEHElastic.last_timestamp
    all_searched_materials,            \* the ledger
    searched_materials_by_collection,  \* the ledger grouped by portal
    run,       \* the running / last get_oeh_search_analytics call
    args,      \* the operands of the comparison or classification under check
    answer     \* what the comparison or classification answered

cacheVars == <<backend, disk, cache, pc, call, trace, outcome, ret, info, calls>>
retryVars == <<MAX_CONN_RETRIES, connection_retries, query>>
analyticsVars == <<feed, last_timestamp, all_searched_materials,
                   searched_materials_by_collection, run>>
valueVars == <<args, answer>>
vars == <<cacheVars, retryVars, analyticsVars, valueVars>>

----------------------------------------------------------------------------
(* Identifiers and numbers of the modelled backend *)

PortalIds == {"p1", "p2"}
ChildIds == {"c1", "c2"}
AllIds == PortalIds \cup ChildIds \cup {"x"}

\* numpy.inf, the default doc_threshold
Inf == 1000

Thresholds == {5, 10, Inf}

----------------------------------------------------------------------------
(* helper_classes.py: Bucket and Collection *)

Bucket(key, doc_count) == [key |-> key, doc_count |-> doc_count]

\* Bucket.as_dict / Bucket.from_json keep key and doc_count
BucketAsDict(b) == [key |-> b.key, doc_count |-> b.doc_count]
BucketFromJson(item) == Bucket(item.key, item.doc_count)

\* Collection(id=..., count_total_resources=...): the optional set fields
\* default to None
Collection(id, count) ==
    [id |-> id, count_total_resources |-> count,
     resources_with_no_licenses |-> "None"]

\* Collection.set_to_list: None or an empty set becomes []
SetToList(s) == IF s \in {"None", "set()"} THEN "[]" ELSE s

\* Collection.list_to_set: None or [] becomes set()
ListToSet(l) == IF l \in {"None", "[]"} THEN "set()" ELSE l

CollectionAsDict(c) ==
    [id |-> c.id, count_total_resources |-> c.count_total_resources,
     resources_with_no_licenses |-> SetToList(c.resources_with_no_licenses)]

CollectionFromJson(item) ==
    [id |-> item.id, count_total_resources |-> item.count_total_resources,
     resources_with_no_licenses |-> ListToSet(item.resources_with_no_licenses)]

Ids(cs) == {c.id : c \in cs}

----------------------------------------------------------------------------
(* oeh_cache.py: Cache *)

NoChildren == [k \in {} |-> {}]

\* Cache(): the dataclass defaults, also what empty_cache assigns
EmptyCache ==
    [collection_buckets |-> <<>>,
     fachportale |-> {},
     fachportale_with_children |-> NoChildren]

CacheKeys == {"collection_buckets", "fachportale", "fachportale_with_children"}

\* the file does not exist
NoFile ==
    [kind |-> "nofile", keys |-> {}, collection_buckets |-> <<>>,
     fachportale |-> {}, fachportale_with_children |-> NoChildren]

\* the file exists and holds no JSON document (touched, or truncated by open("w"))
EmptyFile ==
    [kind |-> "empty", keys |-> {}, collection_buckets |-> <<>>,
     fachportale |-> {}, fachportale_with_children |-> NoChildren]

SerializeFachportaleWithChildren(c) ==
    [k \in DOMAIN c.fachportale_with_children |->
        {CollectionAsDict(x) : x \in c.fachportale_with_children[k]}]

SerializeAttributes(c) ==
    [kind |-> "json", keys |-> CacheKeys,
     collection_buckets |->
        [i \in DOMAIN c.collection_buckets |-> BucketAsDict(c.collection_buckets[i])],
     fachportale |-> {CollectionAsDict(x) : x \in c.fachportale},
     fachportale_with_children |-> SerializeFachportaleWithChildren(c)]

\* variant: the children map is rebuilt from the document's keys without
\* resolving them against the portals
DeserializeFachportaleWithChildren_NoLookup(fachportale, data) ==
    [outcome |-> "ok",
     val |-> [key \in DOMAIN data |-> {CollectionFromJson(x) : x \in data[key]}]]

\* variant: keys without a portal are skipped instead of raising
DeserializeFachportaleWithChildren_SkipUnknown(fachportale, data) ==
    [outcome |-> "ok",
     val |-> [key \in DOMAIN data \cap Ids(fachportale) |->
                {CollectionFromJson(x) : x \in data[key]}]]

\* next(f for f in self.fachportale if f.id == key) raises StopIteration when
\* no portal has the key as its id
DeserializeFachportaleWithChildren(fachportale, data) ==
    IF \E key \in DOMAIN data : key \notin Ids(fachportale)
    THEN [outcome |-> "StopIteration", val |-> NoChildren]
    ELSE [outcome |-> "ok",
          val |-> [key \in DOMAIN data |-> {CollectionFromJson(x) : x \in data[key]}]]

\* the cache fields and the outcome of load_cache_from_disk on document d
LoadCacheFromDisk(c, d) ==
    IF d.kind = "nofile" THEN [cache |-> c, outcome |-> "FileNotFoundError"]
    ELSE IF d.kind # "json" THEN [cache |-> c, outcome |-> "JSONDecodeError"]
    ELSE IF "collection_buckets" \notin d.keys \/ d.collection_buckets = <<>>
    THEN [cache |-> c, outcome |-> "KeyError"]
    ELSE
      LET c1 == [c EXCEPT !.collection_buckets =
                    [i \in DOMAIN d.collection_buckets |->
                        BucketFromJson(d.collection_buckets[i])]]
      IN  IF "fachportale" \notin d.keys
          THEN [cache |-> c1, outcome |-> "KeyError"]
          ELSE
            LET c2 == [c1 EXCEPT !.fachportale =
                          {CollectionFromJson(x) : x \in d.fachportale}]
            IN  IF "fachportale_with_children" \notin d.keys
                THEN [cache |-> c2, outcome |-> "KeyError"]
                ELSE
                  LET r == DeserializeFachportaleWithChildren(
                              c2.fachportale, d.fachportale_with_children)
                  IN  IF r.outcome # "ok"
                      THEN [cache |-> c2, outcome |-> r.outcome]
                      ELSE [cache |-> [c2 EXCEPT !.fachportale_with_children = r.val],
                            outcome |-> "ok"]

----------------------------------------------------------------------------
(* The environment: answers of the search backend and of the directory *)

\* total hits of get_statisic_counts(collection_id=id, attribute="nodeRef.id")
DocCount == [id \in AllIds |->
    CASE id = "c1" -> 5 [] id = "c2" -> 50 [] id = "p1" -> 55 [] OTHER -> 0]

\* total hits of the ccm:io query of check_number_of_resources_in_collection:
\* a second, independent count (matched on "path", not on "collections.path")
PathCounts ==
    {[id \in AllIds |-> DocCount[id]],
     [id \in AllIds |-> CASE id = "c1" -> 50 [] id = "c2" -> 5 [] OTHER -> DocCount[id]]}

\* hits of get_collection_children_by_id: the ccm:map nodes with id in their path
ChildrenByPath == [id \in AllIds |-> IF id = "p1" THEN ChildIds ELSE {}]

\* the longest bucket list the collection aggregation returns
MaxBuckets == 1

\* "buckets" of the aggregation behind build_collection_buckets_cache
Aggregations ==
    UNION {[1..n -> {[key |-> "p1", doc_count |-> 55]}] : n \in 0..MaxBuckets}

Backends ==
    [portals : {{}, {"p1"}, PortalIds},
     aggregation : Aggregations,
     doc_count : {DocCount},
     path_count : PathCounts,
     children : {ChildrenByPath}]

\* the documents cache.json may hold when the process starts
InitialDocuments ==
    {NoFile, EmptyFile} \cup
    [kind : {"json"},
     keys : {CacheKeys} \cup {CacheKeys \ {k} : k \in CacheKeys},
     collection_buckets : {<<>>, <<[key |-> "p1", doc_count |-> 7]>>},
     fachportale : {{CollectionAsDict(Collection("p1", 7))}},
     fachportale_with_children :
        {NoChildren,
         [k \in {"p1"} |-> {CollectionAsDict(Collection("c1", 3))}],
         [k \in {"p2"} |-> {CollectionAsDict(Collection("c1", 3))}]}]

----------------------------------------------------------------------------
(* oeh.py: OEHElastic *)

\* variant: the comparison with doc_threshold is strict
CheckNumberOfResourcesInCollection_Strict(b, id, doc_threshold) ==
    b.path_count[id] < doc_threshold

\* check_number_of_resources_in_collection, nested in get_collection_children
CheckNumberOfResourcesInCollection(b, id, doc_threshold) ==
    b.path_count[id] <= doc_threshold

\* parse_raw_collection_children, nested in get_collection_children
ParseRawCollectionChildren(b, hits, doc_threshold) ==
    {Collection(id, b.doc_count[id]) :
        id \in {h \in hits :
                  /\ b.doc_count[h] <= doc_threshold
                  /\ CheckNumberOfResourcesInCollection(b, h, doc_threshold)}}

\* variant: cached children are filtered by doc_threshold as well
GetCollectionChildren_FilterCached(c, b, collection_id, doc_threshold, fail) ==
    IF DOMAIN c.fachportale_with_children # {}
    THEN IF collection_id \in DOMAIN c.fachportale_with_children
         THEN [outcome |-> "ok",
               val |-> {x \in c.fachportale_with_children[collection_id] :
                          x.count_total_resources <= doc_threshold},
               queried |-> FALSE]
         ELSE [outcome |-> "KeyError", val |-> {}, queried |-> FALSE]
    ELSE IF fail
         THEN [outcome |-> "BackendError", val |-> {}, queried |-> TRUE]
         ELSE [outcome |-> "ok",
               val |-> {Collection(id, b.doc_count[id]) :
                          id \in {h \in b.children[collection_id] :
                                    /\ b.doc_count[h] <= doc_threshold
                                    /\ b.path_count[h] <= doc_threshold}},
               queried |-> TRUE]

\* get_collection_children: outcome, returned value, and whether the backend
\* was queried.  fail: the backend call does not deliver a response.
GetCollectionChildren(c, b, collection_id, doc_threshold, fail) ==
    IF DOMAIN c.fachportale_with_children # {}
    THEN IF collection_id \in DOMAIN c.fachportale_with_children
         THEN [outcome |-> "ok",
               val |-> c.fachportale_with_children[collection_id],
               queried |-> FALSE]
         ELSE [outcome |-> "KeyError", val |-> {}, queried |-> FALSE]
    ELSE IF fail
         THEN [outcome |-> "BackendError", val |-> {}, queried |-> TRUE]
         ELSE [outcome |-> "ok",
               val |-> ParseRawCollectionChildren(
                          b, b.children[collection_id], doc_threshold),
               queried |-> TRUE]

BuildCollectionBucketsCache(b) ==
    [i \in DOMAIN b.aggregation |->
        Bucket(b.aggregation[i].key, b.aggregation[i].doc_count)]

\* build_fachportale: the directory's portals, each with its total count
BuildFachportale(b) == {Collection(id, b.doc_count[id]) : id \in b.portals}

\* variant: the children are resolved with a finite threshold
BuildFachportaleWithChildrenCache_Threshold10(c, b) ==
    [id \in Ids(c.fachportale) |-> GetCollectionChildren(c, b, id, 10, FALSE)]

\* build_fachportale_with_children_cache: one get_collection_children call,
\* with the default threshold, per cached portal
BuildFachportaleWithChildrenCache(c, b) ==
    [id \in Ids(c.fachportale) |-> GetCollectionChildren(c, b, id, Inf, FALSE)]

NoRet == [id |-> "x", doc_threshold |-> Inf, outcome |-> "none",
          val |-> {}, queried |-> FALSE]

\* the ccm:map nodes the backend holds (hits of the nodeRef.id query of
\* get_collection_info); "x" is the id of no node
BackendNodes == PortalIds \cup ChildIds

\* parse_query_result: the Collection of a hit, with its computed count
ParseQueryResult(b, id) == Collection(id, b.doc_count[id])

\* bool(collection) of the walrus test: a dataclass instance without __bool__
\* and __len__ is true
CollectionIsTrue(collection) == collection \in {collection}

\* get_collection_info: next() over the cached portals raises StopIteration
\* when none has the id; otherwise the portal found is returned.  val is the
\* set holding the returned Collection.
GetCollectionInfo(c, b, id, fail) ==
    IF \A f \in c.fachportale : f.id # id
    THEN [outcome |-> "StopIteration", val |-> {}, queried |-> FALSE]
    ELSE LET collection == CHOOSE f \in c.fachportale : f.id = id
         IN  IF CollectionIsTrue(collection)
             THEN [outcome |-> "ok", val |-> {collection}, queried |-> FALSE]
             ELSE IF fail
                  THEN [outcome |-> "BackendError", val |-> {}, queried |-> TRUE]
                  ELSE IF id \notin BackendNodes
                       THEN [outcome |-> "IndexError", val |-> {}, queried |-> TRUE]
                       ELSE [outcome |-> "ok", val |-> {ParseQueryResult(b, id)},
                             queried |-> TRUE]

\* get_fachportale: the cached portals if there are any; otherwise
\* build_fachportale_cache() is called and the set it returns is dropped (the
\* else branch has no return and assigns nothing), so the call returns None
GetFachportale(c, b, fail) ==
    IF c.fachportale # {}
    THEN [outcome |-> "ok", val |-> c.fachportale, none |-> FALSE, queried |-> FALSE]
    ELSE IF fail
         THEN [outcome |-> "BackendError", val |-> {}, none |-> FALSE, queried |-> TRUE]
         ELSE [outcome |-> "ok", val |-> {}, none |-> TRUE, queried |-> TRUE]

NoInfo == [op |-> "none", id |-> "x", outcome |-> "none", val |-> {},
           none |-> FALSE, queried |-> FALSE]

\* the orders in which a set can be iterated
Orders(S) ==
    {o \in [1..Cardinality(S) -> S] : \A i, j \in DOMAIN o : i # j => o[i] # o[j]}

Call(fn, id, doc_threshold) == [fn |-> fn, id |-> id, doc_threshold |-> doc_threshold]

RECURSIVE Flatten(_)
Flatten(ss) == IF ss = <<>> THEN <<>> ELSE Head(ss) \o Flatten(Tail(ss))

\* build_collection_buckets_cache: one aggregation query
BuildCollectionBucketsCalls == <<Call("get_aggregations", "x", Inf)>>

\* build_fachportale: the directory call, then one count query per portal,
\* in the iteration order of the parsed set
BuildFachportaleCalls(b, order) ==
    <<Call("get_collections", "x", Inf)>>
        \o [i \in DOMAIN order |-> Call("get_statisic_counts", order[i], Inf)]

\* the backend calls of one get_collection_children(collection_id,
\* doc_threshold) on the query branch: the children query, then per hit the
\* count query and, when the count passes, the resource check
GetCollectionChildrenCalls(b, collection_id, doc_threshold) ==
    LET hits == CHOOSE o \in Orders(b.children[collection_id]) : TRUE
    IN  <<Call("get_collection_children", collection_id, doc_threshold),
          Call("get_collection_children_by_id", collection_id, doc_threshold)>>
        \o Flatten([i \in DOMAIN hits |->
              <<Call("get_statisic_counts", hits[i], doc_threshold)>> \o
              (IF b.doc_count[hits[i]] <= doc_threshold
               THEN <<Call("check_number_of_resources_in_collection",
                           hits[i], doc_threshold)>>
               ELSE <<>>)])

\* build_fachportale_with_children_cache: the calls of its loop over the
\* cached portals
BuildFachportaleWithChildrenCalls(c, b, order) ==
    Flatten([i \in DOMAIN order |->
        IF DOMAIN c.fachportale_with_children # {}
        THEN <<Call("get_collection_children", order[i], Inf)>>
        ELSE GetCollectionChildrenCalls(b, order[i], Inf)])

\* the two components that call a backend, each with its own retry counter
Clients == {"elastic", "edu_sharing"}

\* set_conn_retries: "inf" or an integer literal from the environment
SetConnRetries == {0, 1, 2, Inf}

\* the most connectivity failures the environment produces within one call
MaxFailures == 3

\* the highest value the counters are followed to (they are unbounded when
\* the maximum is)
MaxCounter == 5

NoQuery == [client |-> "elastic", state |-> "idle", result |-> "none",
            start |-> 0, retries |-> 0, failures |-> 0]

\* no backend call is running and none has failed; the maximum is unbounded
RetryIdle ==
    /\ MAX_CONN_RETRIES = Inf
    /\ connection_retries = [c \in Clients |-> 0]
    /\ query = NoQuery

\* variant: the counter is compared with <= instead of <
ExceptBranch_OneMore(retries, max) ==
    IF retries <= max
    THEN [connection_retries |-> retries + 1, retry |-> TRUE]
    ELSE [connection_retries |-> retries, retry |-> FALSE]

\* variant: giving up clears the counter
ExceptBranch_ResetsOnExhaustion(retries, max) ==
    IF retries < max
    THEN [connection_retries |-> retries + 1, retry |-> TRUE]
    ELSE [connection_retries |-> 0, retry |-> FALSE]

\* variant: a retried failure counts twice
ExceptBranch_CountsTwice(retries, max) ==
    IF retries < max
    THEN [connection_retries |-> retries + 2, retry |-> TRUE]
    ELSE [connection_retries |-> retries, retry |-> FALSE]

\* the except branch of query_elastic / get_collections: below the maximum
\* the counter is incremented and the call repeated; otherwise the branch
\* falls through and the function ends without a return statement
ExceptBranch(retries, max) ==
    IF retries < max
    THEN [connection_retries |-> retries + 1, retry |-> TRUE]
    ELSE [connection_retries |-> retries, retry |-> FALSE]

\* ids of the resources that usage events refer to
ResourceIds == {"r1", "r2"}

\* search strings of usage events
Terms == {"math", "algebra"}

\* timestamps are ISO strings of one format, compared as strings; the model
\* uses their rank 1..MaxTime, and 0 for the initial "now-30d"
MaxTime == 2

\* the most events the feed holds
MaxEvents == 2

\* the most get_oeh_search_analytics calls of a behaviour
MaxRuns == 2

\* timestamp=None of get_oeh_search_analytics
None == -1

\* the default of the count parameter
DefaultCount == 10000

\* the documents of the oeh-search-analytics index: clicks on a result, and
\* other actions (which carry no clickedResult)
Events ==
    [timestamp : 1..MaxTime, action : {"result_click"}, id : ResourceIds,
     searchString : Terms]
    \cup [timestamp : 1..MaxTime, action : {"search"}, id : {"x"},
          searchString : {"math"}]

\* collections[0].path of the workspace node of a resource
NodePath == [id \in ResourceIds |-> IF id = "r1" THEN <<"root", "p1", "c1">>
                                                  ELSE <<"root">>]

\* Counter(): no term counted
NoCounter == [t \in Terms |-> 0]

\* Counter.update([term])
CounterUpdate(counter, term) == [counter EXCEPT ![term] = @ + 1]

\* Counter + Counter
CounterAdd(a, b) == [t \in Terms |-> a[t] + b[t]]

\* the id of a SearchedMaterialInfo constructed without arguments
DefaultId == ""

\* SearchedMaterialInfo(...): the fields the code reads and writes; a field
\* that is not given has its default
SearchedMaterialInfo(id, timestamp) ==
    [id |-> id, name |-> "None", title |-> "None", clicks |-> 0, crawler |-> "",
     content_url |-> "None", creator |-> "None", fps |-> {},
     timestamp |-> timestamp, search_strings |-> NoCounter]

\* e in all_searched_materials: equality and hash of a record are by id
InLedger(ledger, id) == \E e \in ledger : e.id = id

\* set.add: an element equal to one of the set leaves the set as it is
LedgerAdd(ledger, rec) == IF InLedger(ledger, rec.id) THEN ledger ELSE ledger \cup {rec}

\* get_resource_info: the record built from the node of the resource, with
\* clicks = 1 and the portals on its path; any exception of the lookup is
\* logged and a default record returned
GetResourceInfo(resource_id, collection_ids, found) ==
    IF found
    THEN [SearchedMaterialInfo(resource_id, 0) EXCEPT
            !.name = resource_id, !.title = resource_id, !.clicks = 1,
            !.crawler = resource_id, !.content_url = resource_id,
            !.creator = resource_id,
            !.fps = {NodePath[resource_id][i] : i \in DOMAIN NodePath[resource_id]}
                        \cap collection_ids]
    ELSE SearchedMaterialInfo(DefaultId, 0)

\* variant: the later of two timestamps always wins
CheckTimestamp_LastWrite(new, old) == new

\* check_timestamp
CheckTimestamp(new, old) == IF new > old THEN new ELSE old

\* variant: a repeat occurrence keeps the search strings of the old record only
RepeatOccurrence_DropsTerm(ledger, item) ==
    LET old == CHOOSE e \in ledger : e.id = item.id
        clicked_resource ==
            [SearchedMaterialInfo(item.id, item.timestamp) EXCEPT
                !.title = old.title, !.name = old.name, !.fps = old.fps,
                !.creator = old.creator,
                !.search_strings = old.search_strings,
                !.clicks = old.clicks + 1,
                !.timestamp = CheckTimestamp(item.timestamp, old.timestamp)]
    IN  (ledger \ {old}) \cup {clicked_resource}

\* filter_for_terms_and_materials, else branch: the record of the id is
\* replaced by a new one that takes title, name, fps and creator from it
RepeatOccurrence(ledger, item) ==
    LET old == CHOOSE e \in ledger : e.id = item.id
        clicked_resource ==
            [SearchedMaterialInfo(item.id, item.timestamp) EXCEPT
                !.title = old.title, !.name = old.name, !.fps = old.fps,
                !.creator = old.creator,
                !.search_strings =
                    CounterAdd(CounterUpdate(NoCounter, item.searchString),
                               old.search_strings),
                !.clicks = old.clicks + 1,
                !.timestamp = CheckTimestamp(item.timestamp, old.timestamp)]
    IN  (ledger \ {old}) \cup {clicked_resource}

\* filter_for_terms_and_materials, if branch: the looked-up record gets the
\* event's timestamp and search string and is added to the ledger
FirstOccurrence(ledger, item, collection_ids, found) ==
    LET result == GetResourceInfo(item.id, collection_ids, found)
    IN  LedgerAdd(ledger,
                  [result EXCEPT !.timestamp = item.timestamp,
                                 !.search_strings =
                                     CounterUpdate(@, item.searchString)])

\* filter_for_terms_and_materials: the body of its loop, for one click event
FilterForTermsAndMaterials(ledger, item, collection_ids, found) ==
    IF ~InLedger(ledger, item.id)
    THEN FirstOccurrence(ledger, item, collection_ids, found)
    ELSE RepeatOccurrence(ledger, item)

RECURSIVE Reverse(_)
Reverse(s) == IF s = <<>> THEN <<>> ELSE Append(Reverse(Tail(s)), Head(s))

Min(a, b) == IF a < b THEN a ELSE b

IsClick(e) == e.action = "result_click"

\* the hits of the analytics query: the events newer than gt_timestamp,
\* newest first, at most count of them
AnalyticsHits(events, gt_timestamp, count) ==
    LET newer == SelectSeq(Reverse(events), LAMBDA e : e.timestamp > gt_timestamp)
    IN  SubSeq(newer, 1, Min(count, Len(newer)))

\* the grouping at the end of get_oeh_search_analytics: the ledger, sorted
\* newest first, is distributed over the portals of each record, a record
\* without portal goes to "none"
GroupKeys == PortalIds \cup {"none"}

CollectionsByMaterial(sorted) ==
    [k \in GroupKeys |->
        SelectSeq(sorted, LAMBDA item :
            IF item.fps # {} THEN k \in item.fps ELSE k = "none")]

\* variant: sorted without reverse=True
SortedLedgers_Ascending(ledger) ==
    {o \in Orders(ledger) :
        \A i, j \in DOMAIN o : i < j => o[i].timestamp <= o[j].timestamp}

\* sorted(all_searched_materials, reverse=True): the orders of the ledger
\* with non-increasing timestamps
SortedLedgers(ledger) ==
    {o \in Orders(ledger) :
        \A i, j \in DOMAIN o : i < j => o[i].timestamp >= o[j].timestamp}

NoEvent == [timestamp |-> 0, action |-> "none", id |-> "x", searchString |-> "math"]

NoRun == [state |-> "idle", batch |-> <<>>, runs |-> 0,
          timestamp |-> None, explicit |-> FALSE, gt_timestamp |-> 0,
          cursor |-> 0, r |-> <<>>,
          event |-> NoEvent, found |-> FALSE, before |-> {},
          folded |-> [id \in ResourceIds |-> 0],
          newest |-> [id \in ResourceIds |-> 0]]

\* OEHElastic.__init__: no event was consumed
AnalyticsIdle ==
    /\ feed = <<>>
    /\ last_timestamp = 0
    /\ all_searched_materials = {}
    /\ searched_materials_by_collection = [k \in GroupKeys |-> <<>>]
    /\ run = NoRun

----------------------------------------------------------------------------
(* helper_classes.py: the comparison methods of the value objects.  The     *)
(* operands of a comparison and its results are state of the checks below. *)

\* an object of one of the three resource classes; title stands for every
\* field that is not the id, timestamp is a field of Material only
Classes == {"GeneralResource", "Collection", "Material"}

Titles == {"t1", "t2"}

Object(cls, id, title, timestamp) ==
    [cls |-> cls, id |-> id, title |-> title, timestamp |-> timestamp]

Objects ==
    {Object(cls, id, title, None) :
        cls \in {"GeneralResource", "Collection"}, id \in ResourceIds, title \in Titles}
    \cup {Object("Material", id, title, t) :
            id \in ResourceIds, title \in Titles, t \in 0..MaxTime}

\* isinstance(o, cls): Collection and Material are subclasses of GeneralResource
IsInstance(o, cls) == o.cls = cls \/ cls = "GeneralResource"

\* str.__lt__ on the ids: "r1" < "r2"
IdOrder == <<"r1", "r2">>

StrLt(s, t) ==
    \E i, j \in DOMAIN IdOrder : IdOrder[i] = s /\ IdOrder[j] = t /\ i < j

Returned(val) == [outcome |-> "return", val |-> val]

\* `raise NotImplemented` raises TypeError: NotImplemented is no exception
TypeError == [outcome |-> "TypeError", val |-> FALSE]

GeneralResource__eq__(self, o) ==
    IF IsInstance(o, "GeneralResource") THEN self.id = o.id ELSE FALSE

GeneralResource__lt__(self, o) ==
    IF IsInstance(o, "GeneralResource") THEN Returned(StrLt(self.id, o.id)) ELSE TypeError

Collection__eq__(self, o) ==
    IF IsInstance(o, "Collection") THEN self.id = o.id ELSE FALSE

Collection__lt__(self, o) ==
    IF IsInstance(o, "Collection") THEN Returned(StrLt(self.id, o.id)) ELSE TypeError

\* the equality a dataclass generates when __eq__ is not overridden
Material__eq___Generated(self, o) ==
    IF IsInstance(o, "Material") THEN self = o ELSE FALSE

Material__eq__(self, o) ==
    IF IsInstance(o, "Material") THEN self.id = o.id ELSE FALSE

Material__lt__(self, o) ==
    IF IsInstance(o, "Material") THEN Returned(self.timestamp < o.timestamp) ELSE TypeError

\* type(self).__eq__(self, o)
MethodEq(self, o) ==
    CASE self.cls = "GeneralResource" -> GeneralResource__eq__(self, o)
      [] self.cls = "Collection" -> Collection__eq__(self, o)
      [] self.cls = "Material" -> Material__eq__(self, o)

\* a == b: when type(b) is a proper subclass of type(a) that overrides
\* __eq__, Python asks b first; no method returns NotImplemented, so the
\* first answer is the result
Eq(a, b) ==
    IF a.cls = "GeneralResource" /\ b.cls # "GeneralResource"
    THEN MethodEq(b, a)
    ELSE MethodEq(a, b)

\* a < b: no class defines __gt__, so type(a).__lt__(a, b) decides
Lt(a, b) ==
    CASE a.cls = "GeneralResource" -> GeneralResource__lt__(a, b)
      [] a.cls = "Collection" -> Collection__lt__(a, b)
      [] a.cls = "Material" -> Material__lt__(a, b)

\* hash((self.id,)), the same in the three classes
Hash(o) == <<o.id>>

\* {a, b}: b is dropped when its hash is the hash of a and a == b
SetOf(a, b) == IF Hash(a) = Hash(b) /\ Eq(a, b) THEN {a} ELSE {a, b}

\* Bucket: the operand of Bucket.__eq__ is a Bucket or a str
MaxDocs == 2

BucketKeys == {"CC_0", "CUSTOM"}

Buckets == {Bucket(key, n) : key \in BucketKeys, n \in 0..MaxDocs}

PyStr(s) == [str |-> s]

IsStr(o) == DOMAIN o = {"str"}

\* str.__eq__(s, o)
StrEq(s, o) ==
    IF IsStr(o) THEN (IF s = o.str THEN "True" ELSE "False") ELSE "NotImplemented"

\* the equality a dataclass generates when __eq__ is not overridden
BucketEq_Generated(self, o) ==
    IF IsStr(o) THEN FALSE ELSE self.key = o.key /\ self.doc_count = o.doc_count

\* Bucket.__eq__(self, o): `self.key == o` is str.__eq__(self.key, o) and,
\* when that is NotImplemented because o is a Bucket, the reflected
\* o.__eq__(self.key)
BucketEq(self, o) ==
    LET first == StrEq(self.key, o)
    IN  IF first # "NotImplemented" THEN first = "True"
        ELSE StrEq(o.key, PyStr(self.key)) = "True"

BucketHash(b) == <<b.key>>

BucketSetOf(a, b) == IF BucketHash(a) = BucketHash(b) /\ BucketEq(a, b) THEN {a} ELSE {a, b}

\* License classification.  The keys of the license aggregation of
\* get_statisic_counts; "FOO" is in no category set
AggKeys == {"CC_0", "CC_BY_NC", "CUSTOM", "NONE", "FOO"}

\* the buckets of the "license" terms aggregation: one per key with documents
GetStatisicCounts(agg) == {Bucket(key, agg[key]) : key \in {k \in AggKeys : agg[k] > 0}}

Oer == {"CC_0", "CC_BY", "CC_BY_SA", "PDM"}

Cc == {"CC_BY_NC", "CC_BY_NC_ND", "CC_BY_NC_SA", "CC_BY_SA_NC", "CC_BY_ND"}

Copyright == {"COPYRIGHT_FREE", "COPYRIGHT_LICENSE", "CUSTOM"}

\* a taxonomy that takes every unexpected key for a missing license
MissingLicenseKeys_Open == {"NONE", "", "UNTERRICHTS_UND_LEHRMEDIEN", "FOO"}

\* get_material_by_condition("missing_license"): the sentinel keys
MissingLicenseKeys == {"NONE", "", "UNTERRICHTS_UND_LEHRMEDIEN"}

Categories == {"oer", "cc", "copyright", "missing"}

CategorySet(c) ==
    CASE c = "oer" -> Oer
      [] c = "cc" -> Cc
      [] c = "copyright" -> Copyright
      [] c = "missing" -> MissingLicenseKeys

CategoriesOf(key) == {c \in Categories : key \in CategorySet(c)}

RECURSIVE SumDocCounts(_)
SumDocCounts(bs) ==
    IF bs = {} THEN 0
    ELSE LET b == CHOOSE x \in bs : TRUE
         IN  b.doc_count + SumDocCounts(bs \ {b})

\* classify(collectionId): every key of the aggregation falls in one
\* category set or the classification fails; the missing bucket counts the
\* raw totals of the absent-license query and of the sentinel query
Classify(buckets, absent_total, sentinel_total) ==
    IF \E b \in buckets : CategoriesOf(b.key) = {}
    THEN [outcome |-> "ClassificationError",
          category |-> [key \in {} |-> "none"],
          summary |-> [c \in Categories |-> 0]]
    ELSE [outcome |-> "summary",
          category |-> [key \in {b.key : b \in buckets} |->
                           CHOOSE c \in Categories : key \in CategorySet(c)],
          summary |-> [c \in Categories |->
                          IF c = "missing" THEN absent_total + sentinel_total
                          ELSE SumDocCounts({b \in buckets : b.key \in CategorySet(c)})]]

\* the operands the checks draw
Args ==
    {[kind |-> "resources", a |-> a, b |-> b] : a \in Objects, b \in Objects}
    \cup {[kind |-> "buckets", a |-> a, b |-> b] : a \in Buckets, b \in Buckets}
    \cup {[kind |-> "licenses", agg |-> agg, absent_total |-> m, sentinel_total |-> n] :
            agg \in [AggKeys -> 0..MaxDocs], m \in 0..1, n \in 0..1}

NoArgs == [kind |-> "none"]

NoAnswer == [kind |-> "none"]

ValuesIdle ==
    /\ args = NoArgs
    /\ answer = NoAnswer

CacheInit ==
    /\ backend \in Backends
    /\ disk \in InitialDocuments
    /\ cache = EmptyCache
    /\ pc = "idle"
    /\ call = [update |-> FALSE, cache0 |-> EmptyCache, disk0 |-> disk]
    /\ trace = <<>>
    /\ outcome = "none"
    /\ ret = NoRet
    /\ info = NoInfo
    /\ calls = <<>>

Init ==
    /\ CacheInit
    /\ RetryIdle
    /\ AnalyticsIdle
    /\ ValuesIdle

\* OEHElastic.load_cache(update) is called
LoadCache(update) ==
    /\ pc = "idle"
    /\ call' = [update |-> update, cache0 |-> cache, disk0 |-> disk]
    /\ trace' = <<>>
    /\ outcome' = "running"
    /\ ret' = NoRet
    /\ info' = NoInfo
    /\ calls' = <<>>
    /\ pc' = IF update THEN "build_cache" ELSE "load_cache"
    /\ UNCHANGED <<backend, disk, cache, retryVars, analyticsVars, valueVars>>

\* variant: load_cache_from_disk is called without the exists() test, so a
\* missing file is an error
CacheLoadCache_AbsentIsError ==
    /\ pc = "load_cache"
    /\ LET r == IF disk.kind = "nofile"
                THEN [cache |-> cache, outcome |-> "FileNotFoundError"]
                ELSE LoadCacheFromDisk(cache, disk)
       IN  /\ cache' = r.cache
           /\ trace' = Append(trace, IF r.outcome = "ok" THEN "load:ok" ELSE "load:error")
           /\ outcome' = r.outcome
           /\ pc' = "idle"
    /\ UNCHANGED <<backend, disk, call, ret, info, calls, retryVars, analyticsVars, valueVars>>

\* Cache.load_cache: load the file if it exists, else report False
CacheLoadCache ==
    /\ pc = "load_cache"
    /\ IF disk.kind = "nofile"
       THEN /\ trace' = Append(trace, "load:absent")
            /\ pc' = "build_cache"
            /\ UNCHANGED <<cache, outcome>>
       ELSE LET r == LoadCacheFromDisk(cache, disk)
            IN  /\ cache' = r.cache
                /\ trace' = Append(trace, IF r.outcome = "ok" THEN "load:ok" ELSE "load:error")
                /\ outcome' = r.outcome
                /\ pc' = "idle"
    /\ UNCHANGED <<backend, disk, call, ret, info, calls, retryVars, analyticsVars, valueVars>>

\* variant: build_cache does not empty the cache first
BuildEmptyCache_KeepsCache ==
    /\ pc = "build_cache"
    /\ cache' = cache
    /\ trace' = Append(trace, "build_cache")
    /\ pc' = "build_buckets"
    /\ UNCHANGED <<backend, disk, call, outcome, ret, info, calls, retryVars, analyticsVars, valueVars>>

\* build_cache, line 74: Cache.empty_cache
BuildEmptyCache ==
    /\ pc = "build_cache"
    /\ cache' = EmptyCache
    /\ trace' = Append(trace, "build_cache")
    /\ pc' = "build_buckets"
    /\ UNCHANGED <<backend, disk, call, outcome, ret, info, calls, retryVars, analyticsVars, valueVars>>

\* a backend or directory call of the build fails: the exception leaves load_cache
BuildAborts ==
    /\ pc \in {"build_buckets", "build_fachportale", "build_children"}
    /\ outcome' = "BackendError"
    /\ calls' = <<>>
    /\ pc' = "idle"
    /\ UNCHANGED <<backend, disk, cache, call, trace, ret, info, retryVars, analyticsVars, valueVars>>

\* build_cache, line 76
BuildBuckets ==
    /\ pc = "build_buckets"
    /\ cache' = [cache EXCEPT !.collection_buckets = BuildCollectionBucketsCache(backend)]
    /\ calls' = calls \o BuildCollectionBucketsCalls
    /\ pc' = "build_fachportale"
    /\ UNCHANGED <<backend, disk, call, trace, outcome, ret, info, retryVars, analyticsVars, valueVars>>

\* build_cache, line 78
BuildPortals ==
    /\ pc = "build_fachportale"
    /\ cache' = [cache EXCEPT !.fachportale = BuildFachportale(backend)]
    /\ \E order \in Orders(backend.portals) :
          calls' = calls \o BuildFachportaleCalls(backend, order)
    /\ pc' = "build_children"
    /\ UNCHANGED <<backend, disk, call, trace, outcome, ret, info, retryVars, analyticsVars, valueVars>>

\* build_cache, line 80
BuildChildren ==
    /\ pc = "build_children"
    /\ LET rs == BuildFachportaleWithChildrenCache(cache, backend)
       IN  IF \E id \in DOMAIN rs : rs[id].outcome # "ok"
           THEN /\ outcome' = (CHOOSE o \in {rs[id].outcome : id \in DOMAIN rs} : o # "ok")
                /\ pc' = "idle"
                /\ UNCHANGED <<cache, trace>>
           ELSE /\ cache' = [cache EXCEPT !.fachportale_with_children =
                                [id \in DOMAIN rs |-> rs[id].val]]
                /\ trace' = Append(trace, "build_cache:done")
                /\ pc' = "save_cache"
                /\ UNCHANGED outcome
    /\ \E order \in Orders(Ids(cache.fachportale)) :
          calls' = calls \o BuildFachportaleWithChildrenCalls(cache, backend, order)
    /\ UNCHANGED <<backend, disk, call, ret, info, retryVars, analyticsVars, valueVars>>

\* save_cache_to_disk, line 30: make_file touches the file
SaveMakeFile ==
    /\ pc = "save_cache"
    /\ disk' = IF disk.kind = "nofile" THEN EmptyFile ELSE disk
    /\ trace' = Append(trace, "save_cache")
    /\ calls' = <<>>
    /\ pc' = "save_dump"
    /\ UNCHANGED <<backend, cache, call, outcome, ret, info, retryVars, analyticsVars, valueVars>>

\* save_cache_to_disk, lines 32-38: open("w") truncates the file, json.dump
\* writes the document; written = FALSE: the write fails (I/O error)
SaveDump(written) ==
    /\ pc = "save_dump"
    /\ IF written
       THEN /\ disk' = SerializeAttributes(cache)
            /\ trace' = Append(trace, "save_cache:done")
            /\ outcome' = "ok"
       ELSE /\ disk' = EmptyFile
            /\ outcome' = "IOError"
            /\ UNCHANGED trace
    /\ pc' = "idle"
    /\ UNCHANGED <<backend, cache, call, ret, info, calls, retryVars, analyticsVars, valueVars>>

\* a request calls get_collection_children(collection_id, doc_threshold)
GetCollectionChildrenCall(collection_id, doc_threshold, fail) ==
    /\ pc = "idle"
    /\ LET r == GetCollectionChildren(cache, backend, collection_id, doc_threshold, fail)
       IN  ret' = [id |-> collection_id, doc_threshold |-> doc_threshold,
                   outcome |-> r.outcome, val |-> r.val, queried |-> r.queried]
    /\ info' = NoInfo
    /\ UNCHANGED <<backend, disk, cache, pc, call, trace, outcome, calls, retryVars, analyticsVars, valueVars>>

\* a request calls get_collection_info(id)
GetCollectionInfoCall(id, fail) ==
    /\ pc = "idle"
    /\ LET r == GetCollectionInfo(cache, backend, id, fail)
       IN  info' = [op |-> "get_collection_info", id |-> id, outcome |-> r.outcome,
                    val |-> r.val, none |-> FALSE, queried |-> r.queried]
    /\ ret' = NoRet
    /\ UNCHANGED <<backend, disk, cache, pc, call, trace, outcome, calls, retryVars, analyticsVars, valueVars>>

\* a request calls get_fachportale()
GetFachportaleCall(fail) ==
    /\ pc = "idle"
    /\ LET r == GetFachportale(cache, backend, fail)
       IN  info' = [op |-> "get_fachportale", id |-> "x", outcome |-> r.outcome,
                    val |-> r.val, none |-> r.none, queried |-> r.queried]
    /\ ret' = NoRet
    /\ UNCHANGED <<backend, disk, cache, pc, call, trace, outcome, calls, retryVars, analyticsVars, valueVars>>

Next ==
    \/ \E update \in BOOLEAN : LoadCache(update)
    \/ CacheLoadCache
    \/ BuildEmptyCache
    \/ BuildBuckets
    \/ BuildPortals
    \/ BuildChildren
    \/ BuildAborts
    \/ SaveMakeFile
    \/ \E written \in BOOLEAN : SaveDump(written)
    \/ \E id \in AllIds, t \in Thresholds, fail \in BOOLEAN :
          GetCollectionChildrenCall(id, t, fail)
    \/ \E id \in AllIds, fail \in BOOLEAN : GetCollectionInfoCall(id, fail)
    \/ \E fail \in BOOLEAN : GetFachportaleCall(fail)

Spec == Init /\ [][Next]_vars

----------------------------------------------------------------------------
(* Properties *)

Range(s) == {s[i] : i \in DOMAIN s}

\* a load_cache call that ran build_cache has ended
RebuildEnded == pc = "idle" /\ "build_cache" \in Range(trace)

\* a load_cache call that ran load_cache_from_disk has ended
LoadEnded == pc = "idle" /\ Len(trace) = 1 /\ trace[1] \in {"load:ok", "load:error"}

\* C1: when a rebuild started through load_cache has ended, a failed build has
\* not invoked save and has left cache.json as it was, and cache.json is either
\* as it was before the rebuild or the complete document of the built cache,
\* never an empty or truncated file left behind by a failed save.
C1_PersistedNeverPartial ==
    RebuildEnded =>
        /\ "build_cache:done" \notin Range(trace) =>
              "save_cache" \notin Range(trace) /\ disk = call.disk0
        /\ disk = call.disk0 \/ disk = SerializeAttributes(cache)

\* C2: when a rebuild attempt has ended, the in-memory cache is the complete
\* result of that build or exactly the cache as it was before the attempt.
C2_AtomicHandoff ==
    RebuildEnded =>
        cache = call.cache0 \/ "build_cache:done" \in Range(trace)

\* C3: every key of fachportale_with_children is the id of an element of
\* fachportale, in every state (so also after every completed build_cache and
\* every completed load_cache_from_disk).
C3_ReferentialIntegrity ==
    DOMAIN cache.fachportale_with_children \subseteq Ids(cache.fachportale)

C3_Witness ==
    /\ pc = "idle"
    /\ trace = <<"load:ok">>
    /\ DOMAIN cache.fachportale_with_children # {}

\* C4: after a completed build and save, loading cache.json into a fresh Cache
\* succeeds and gives the same portal ids and the same child ids per portal.
C4_RoundTrip ==
    (pc = "idle" /\ outcome = "ok" /\ "save_cache:done" \in Range(trace)) =>
        LET r == LoadCacheFromDisk(EmptyCache, disk)
        IN  /\ r.outcome = "ok"
            /\ Ids(r.cache.fachportale) = Ids(cache.fachportale)
            /\ DOMAIN r.cache.fachportale_with_children
                  = DOMAIN cache.fachportale_with_children
            /\ \A k \in DOMAIN cache.fachportale_with_children :
                  Ids(r.cache.fachportale_with_children[k])
                     = Ids(cache.fachportale_with_children[k])

\* C5: a load_cache_from_disk that failed has changed none of the fields
\* collection_buckets, fachportale, fachportale_with_children.
C5_LoadAllOrNothing ==
    (LoadEnded /\ trace[1] = "load:error") => cache = call.cache0

\* the children map of document d has a key that is the id of no portal of d
DanglingKey(d) ==
    /\ d.kind = "json"
    /\ {"fachportale", "fachportale_with_children"} \subseteq d.keys
    /\ \E k \in DOMAIN d.fachportale_with_children : k \notin Ids(d.fachportale)

ColdStartTrace ==
    <<"load:absent", "build_cache", "build_cache:done", "save_cache", "save_cache:done">>

IsPrefix(s, t) == Len(s) <= Len(t) /\ \A i \in DOMAIN s : s[i] = t[i]

ColdStart == call.update = FALSE /\ call.disk0.kind = "nofile" /\ outcome # "none"

\* C7: load_cache(update=False) without a cache file: the load reports absence
\* without an error, then build_cache runs, and save_cache runs only after
\* build_cache has completed; when the call ends normally cache.json holds the
\* built cache.  With a file that loads, neither build_cache nor save_cache runs.
C7_ColdStartOrder ==
    /\ (ColdStart /\ pc # "load_cache") =>
          /\ trace # <<>> /\ trace[1] = "load:absent"
          /\ IsPrefix(trace, ColdStartTrace)
          /\ outcome \in {"running", "ok", "BackendError", "IOError"}
    /\ (ColdStart /\ pc = "idle" /\ outcome = "ok") =>
          /\ trace = ColdStartTrace
          /\ disk.kind = "json"
          /\ disk = SerializeAttributes(cache)
    /\ (trace # <<>> /\ trace[1] = "load:ok") =>
          /\ trace = <<"load:ok">>
          /\ pc = "idle"
          /\ disk = call.disk0

C7_Witness ==
    /\ ColdStart
    /\ pc = "idle"
    /\ outcome = "ok"
    /\ cache.fachportale # {}
    /\ disk = SerializeAttributes(cache)

C9_CacheMissFallsBack ==
    (ret.outcome # "none" /\ ret.id \notin DOMAIN cache.fachportale_with_children) =>
        /\ ret.queried
        /\ ret.outcome \in {"ok", "BackendError"}

C11_InfoCacheFirstThenBackend ==
    (info.op = "get_collection_info") =>
        IF \E f \in cache.fachportale : f.id = info.id
        THEN /\ info.outcome = "ok"
             /\ ~info.queried
             /\ info.val = {f \in cache.fachportale : f.id = info.id}
        ELSE /\ info.queried
             /\ (info.outcome = "ok" =>
                    info.val = {Collection(info.id, backend.doc_count[info.id])})

\* C12: get_collection_info(id) ends in NotFound exactly when neither the
\* cached portals nor the backend has a node with the id, and in no fault
\* while the backend has a matching node and answers.
C12_NotFoundExactly ==
    (info.op = "get_collection_info" /\ info.outcome # "BackendError") =>
        /\ (info.outcome \in {"IndexError", "NotFound"}) <=>
               (/\ \A f \in cache.fachportale : f.id # info.id
                /\ info.id \notin BackendNodes)
        /\ (info.id \in BackendNodes => info.outcome = "ok")

\* C13: get_fachportale returns the portals in every cache state: the cached
\* list when it is non-empty, the built portals when it is empty, never None.
C13_PortalsNeverAbsent ==
    (info.op = "get_fachportale" /\ info.outcome = "ok") =>
        /\ ~info.none
        /\ info.val = IF cache.fachportale # {} THEN cache.fachportale
                                                ELSE BuildFachportale(backend)

\* positions of the running build's call log that call fn on one of ids
CallsOf(fn, ids) == {i \in DOMAIN calls : calls[i].fn = fn /\ calls[i].id \in ids}

ChildrenFns == {"get_collection_children", "get_collection_children_by_id",
                "check_number_of_resources_in_collection"}

\* C16: in every build_cache the portal list is fetched from the directory
\* before any per-portal count query, every portal's count is computed before
\* the children of any portal are resolved, every children resolution uses the
\* unbounded threshold, and the children map is assigned only after the
\* children of all portals were resolved.
C16_RebuildStepOrder ==
    LET directory == CallsOf("get_collections", {"x"})
        counts    == CallsOf("get_statisic_counts", PortalIds)
        children  == CallsOf("get_collection_children", PortalIds)
    IN  /\ \A i \in counts : \E j \in directory : j < i
        /\ \A i \in children :
              /\ \A j \in counts : j < i
              /\ \A p \in backend.portals : CallsOf("get_statisic_counts", {p}) # {}
        /\ \A i \in DOMAIN calls :
              (calls[i].fn \in ChildrenFns \/ calls[i].id \in ChildIds)
                  => calls[i].doc_threshold = Inf
        /\ (pc \in {"build_buckets", "build_fachportale", "build_children"})
              => DOMAIN cache.fachportale_with_children = {}
        /\ (pc = "save_cache") =>
              /\ DOMAIN cache.fachportale_with_children = Ids(cache.fachportale)
              /\ \A p \in Ids(cache.fachportale) :
                    /\ CallsOf("get_collection_children", {p}) # {}
                    /\ Ids(cache.fachportale_with_children[p]) = backend.children[p]

\* a build over two portals has resolved the children of both
C16_Witness ==
    /\ pc = "save_cache"
    /\ Cardinality(CallsOf("get_collection_children", PortalIds)) = 2
    /\ Cardinality(CallsOf("get_statisic_counts", PortalIds)) = 2
    /\ \E p \in DOMAIN cache.fachportale_with_children :
          Cardinality(cache.fachportale_with_children[p]) = 2

----------------------------------------------------------------------------
(* Backend calls and their retries: query_elastic, EduSharing.get_collections *)

\* the cache is empty and no cache operation runs
CacheIdle ==
    /\ backend = CHOOSE b \in Backends : b.portals = PortalIds /\ b.aggregation = <<>>
    /\ disk = NoFile
    /\ cache = EmptyCache
    /\ pc = "idle"
    /\ call = [update |-> FALSE, cache0 |-> EmptyCache, disk0 |-> NoFile]
    /\ trace = <<>>
    /\ outcome = "none"
    /\ ret = NoRet
    /\ info = NoInfo
    /\ calls = <<>>

InitRetry ==
    /\ CacheIdle
    /\ MAX_CONN_RETRIES \in SetConnRetries
    /\ connection_retries = [c \in Clients |-> 0]
    /\ query = NoQuery
    /\ AnalyticsIdle
    /\ ValuesIdle

\* a component starts a backend call
QueryStart(client) ==
    /\ query.state # "trying"
    /\ query' = [client |-> client, state |-> "trying", result |-> "none",
                 start |-> connection_retries[client], retries |-> 0, failures |-> 0]
    /\ UNCHANGED <<MAX_CONN_RETRIES, connection_retries, cacheVars, analyticsVars, valueVars>>

\* the attempt obtains a response: the counter is reset and the response returned
AttemptSucceeds ==
    /\ query.state = "trying"
    /\ connection_retries' = [connection_retries EXCEPT ![query.client] = 0]
    /\ query' = [query EXCEPT !.state = "returned", !.result = "response"]
    /\ UNCHANGED <<MAX_CONN_RETRIES, cacheVars, analyticsVars, valueVars>>

\* the attempt hits a connectivity failure: the except branch runs
AttemptFails ==
    /\ query.state = "trying"
    /\ query.failures < MaxFailures
    /\ connection_retries[query.client] < MaxCounter
    /\ LET e == ExceptBranch(connection_retries[query.client], MAX_CONN_RETRIES)
       IN  /\ connection_retries' =
                 [connection_retries EXCEPT ![query.client] = e.connection_retries]
           /\ query' = IF e.retry
                       THEN [query EXCEPT !.retries = @ + 1, !.failures = @ + 1]
                       ELSE [query EXCEPT !.state = "returned", !.result = "None",
                                          !.failures = @ + 1]
    /\ UNCHANGED <<MAX_CONN_RETRIES, cacheVars, analyticsVars, valueVars>>

\* es.search raises an exception that is no ConnectionError: query_elastic
\* does not catch it (the bare except of get_collections catches everything)
AttemptRaises ==
    /\ query.state = "trying"
    /\ query.client = "elastic"
    /\ query' = [query EXCEPT !.state = "raised", !.result = "Exception"]
    /\ UNCHANGED <<MAX_CONN_RETRIES, connection_retries, cacheVars, analyticsVars, valueVars>>

NextRetry ==
    \/ \E client \in Clients : QueryStart(client)
    \/ AttemptSucceeds
    \/ AttemptFails
    \/ AttemptRaises

SpecRetry == InitRetry /\ [][NextRetry]_vars

\* the running or last call hit a connectivity failure with the counter at
\* the configured maximum
RetriesExhausted ==
    /\ query.state # "idle"
    /\ query.failures = query.retries + 1

\* C14: a backend call whose connectivity failures exhaust the retries ends in
\* the BackendUnavailable error, never in an ordinary return value.
C14_ExhaustionRaises ==
    RetriesExhausted =>
        /\ query.state = "raised"
        /\ query.result = "BackendUnavailable"

----------------------------------------------------------------------------
(* The analytics ledger: get_oeh_search_analytics *)

InitAnalytics ==
    /\ CacheIdle
    /\ RetryIdle
    /\ AnalyticsIdle
    /\ ValuesIdle

\* the backend records a usage event, not older than the ones it holds
AddEvent(e) ==
    /\ run.state = "idle"
    /\ Len(feed) < MaxEvents
    /\ feed # <<>> => e.timestamp >= feed[Len(feed)].timestamp
    /\ feed' = Append(feed, e)
    /\ UNCHANGED <<last_timestamp, all_searched_materials,
                   searched_materials_by_collection, run, cacheVars, retryVars, valueVars>>

\* variant: last_timestamp moves to the oldest hit
AnalyticsStart_OldestHit(timestamp, count) ==
    /\ run.state = "idle"
    /\ run.runs < MaxRuns
    /\ LET gt_timestamp == IF timestamp = None THEN last_timestamp ELSE timestamp
           r == AnalyticsHits(feed, gt_timestamp, count)
       IN  /\ last_timestamp' = IF Len(r) > 0 THEN r[Len(r)].timestamp ELSE last_timestamp
           /\ run' = [run EXCEPT !.state = "fold", !.runs = @ + 1,
                                 !.batch = SelectSeq(r, IsClick),
                                 !.timestamp = timestamp,
                                 !.explicit = @ \/ timestamp # None,
                                 !.gt_timestamp = gt_timestamp,
                                 !.cursor = last_timestamp, !.r = r]
    /\ UNCHANGED <<feed, all_searched_materials, searched_materials_by_collection,
                   cacheVars, retryVars, valueVars>>

\* get_oeh_search_analytics(timestamp, count), lines 417-448: the query and
\* the move of last_timestamp to the newest hit
AnalyticsStart(timestamp, count) ==
    /\ run.state = "idle"
    /\ run.runs < MaxRuns
    /\ LET gt_timestamp == IF timestamp = None THEN last_timestamp ELSE timestamp
           r == AnalyticsHits(feed, gt_timestamp, count)
       IN  /\ last_timestamp' = IF Len(r) > 0 THEN r[1].timestamp ELSE last_timestamp
           /\ run' = [run EXCEPT !.state = "fold", !.runs = @ + 1,
                                 !.batch = SelectSeq(r, IsClick),
                                 !.timestamp = timestamp,
                                 !.explicit = @ \/ timestamp # None,
                                 !.gt_timestamp = gt_timestamp,
                                 !.cursor = last_timestamp, !.r = r]
    /\ UNCHANGED <<feed, all_searched_materials, searched_materials_by_collection,
                   cacheVars, retryVars, valueVars>>

\* one round of the loop of filter_for_terms_and_materials; found = FALSE:
\* the lookup of the resource raises (its node is gone, or the backend
\* returned nothing)
FoldEvent(found) ==
    /\ run.state = "fold"
    /\ run.batch # <<>>
    /\ LET item == Head(run.batch)
       IN  /\ all_searched_materials' =
                 FilterForTermsAndMaterials(all_searched_materials, item,
                                            backend.portals, found)
           /\ run' = [run EXCEPT !.batch = Tail(@), !.event = item,
                                 !.found = found, !.before = all_searched_materials,
                                 !.folded[item.id] = @ + 1,
                                 !.newest[item.id] = IF item.timestamp > @
                                                     THEN item.timestamp ELSE @]
    /\ UNCHANGED <<feed, last_timestamp, searched_materials_by_collection,
                   cacheVars, retryVars, valueVars>>

\* lines 517-526: the ledger is sorted and grouped by portal
GroupByCollection ==
    /\ run.state = "fold"
    /\ run.batch = <<>>
    /\ \E sorted \in SortedLedgers(all_searched_materials) :
          searched_materials_by_collection' = CollectionsByMaterial(sorted)
    /\ run' = [run EXCEPT !.state = "idle"]
    /\ UNCHANGED <<feed, last_timestamp, all_searched_materials, cacheVars, retryVars, valueVars>>

NextAnalytics ==
    \/ \E e \in Events : AddEvent(e)
    \/ \E timestamp \in {None, 0}, count \in {1, DefaultCount} :
          AnalyticsStart(timestamp, count)
    \/ \E found \in BOOLEAN : FoldEvent(found)
    \/ GroupByCollection

SpecAnalytics == InitAnalytics /\ [][NextAnalytics]_vars

\* the ledger's record of an id
RecordOf(ledger, id) == CHOOSE e \in ledger : e.id = id

\* the last loop round folded a click on an id the ledger did not hold
FoldedFirstOccurrence ==
    /\ IsClick(run.event)
    /\ ~InLedger(run.before, run.event.id)

\* the last loop round folded a click on an id the ledger held
FoldedRepeatOccurrence ==
    /\ IsClick(run.event)
    /\ InLedger(run.before, run.event.id)

\* C17: after a result_click event for an id without ledger record is
\* processed, the ledger holds a record for that id with clickCount 1,
\* searchTermCounts {term: 1}, lastSeenTimestamp the event's timestamp and
\* attributedPortals the resource's path intersected with the portal ids.
C17_FirstOccurrence ==
    FoldedFirstOccurrence =>
        /\ InLedger(all_searched_materials, run.event.id)
        /\ LET e == RecordOf(all_searched_materials, run.event.id)
               path == NodePath[run.event.id]
           IN  /\ e.clicks = 1
               /\ e.search_strings = [t \in Terms |->
                                        IF t = run.event.searchString THEN 1 ELSE 0]
               /\ e.timestamp = run.event.timestamp
               /\ e.fps = {path[i] : i \in DOMAIN path} \cap backend.portals

\* C18: after a result_click event for an id with a ledger record is
\* processed, the record has the title, name, attributedPortals and creator
\* it had, clickCount one higher, and searchTermCounts with one more
\* occurrence of the event's term ("math" then "algebra": each 1, 2 clicks).
C18_RepeatOccurrence ==
    FoldedRepeatOccurrence =>
        /\ InLedger(all_searched_materials, run.event.id)
        /\ LET old == RecordOf(run.before, run.event.id)
               new == RecordOf(all_searched_materials, run.event.id)
           IN  /\ new.title = old.title
               /\ new.name = old.name
               /\ new.fps = old.fps
               /\ new.creator = old.creator
               /\ new.clicks = old.clicks + 1
               /\ \A t \in Terms :
                     new.search_strings[t] =
                         old.search_strings[t]
                             + (IF t = run.event.searchString THEN 1 ELSE 0)
               /\ (old.clicks = 1 /\ old.search_strings["math"] = 1
                     /\ old.search_strings["algebra"] = 0
                     /\ run.event.searchString = "algebra")
                  => (new.clicks = 2 /\ new.search_strings["math"] = 1
                        /\ new.search_strings["algebra"] = 1)

\* clicks on r1 with "math" and then "algebra" were folded
C18_Witness ==
    /\ FoldedRepeatOccurrence
    /\ run.event.id = "r1"
    /\ run.event.searchString = "algebra"
    /\ RecordOf(run.before, "r1").search_strings = [t \in Terms |->
                                                      IF t = "math" THEN 1 ELSE 0]
    /\ RecordOf(all_searched_materials, "r1").clicks = 2
    /\ RecordOf(all_searched_materials, "r1").title = "r1"
    /\ RecordOf(all_searched_materials, "r1").fps = {"p1"}

\* C19: after any sequence of result_click events for an id, in any order,
\* the record's lastSeenTimestamp is the maximum timestamp of the processed
\* events; two events T1 < T2 in either order end with clickCount 2 and T2.
C19_LastSeenIsMax ==
    \A id \in ResourceIds :
        run.folded[id] > 0 =>
            /\ InLedger(all_searched_materials, id)
            /\ RecordOf(all_searched_materials, id).timestamp = run.newest[id]
            /\ run.folded[id] = 2 => RecordOf(all_searched_materials, id).clicks = 2

\* C20: the clickCount of a record never decreases from one step to the next
\* and equals the number of result_click events for its id that were folded,
\* a replayed batch counting again.
C20_ClickCountCountsEvents ==
    [][/\ \A e \in all_searched_materials :
             /\ InLedger(all_searched_materials', e.id)
             /\ RecordOf(all_searched_materials', e.id).clicks >= e.clicks
       /\ \A id \in ResourceIds :
             InLedger(all_searched_materials', id) =>
                 RecordOf(all_searched_materials', id).clicks = run'.folded[id]]_vars

\* the newest timestamp of a non-empty sequence of events
Newest(events) ==
    CHOOSE t \in {events[i].timestamp : i \in DOMAIN events} :
        \A i \in DOMAIN events : events[i].timestamp <= t

\* C21: after a run over a non-empty batch last_timestamp is the newest event
\* timestamp of the batch, after a run over an empty batch it is unchanged, a
\* run without explicit timestamp fetches the events strictly newer than it,
\* and it never moves backwards.
C21_HighWaterMark ==
    [][/\ last_timestamp' >= last_timestamp
       /\ (run'.runs > 0) =>
             /\ last_timestamp' = IF run'.r # <<>> THEN Newest(run'.r) ELSE run'.cursor
             /\ run'.timestamp = None => run'.gt_timestamp = run'.cursor
             /\ \A i \in DOMAIN run'.r : run'.r[i].timestamp > run'.gt_timestamp
             /\ (run'.state = "fold") =>
                   (run'.r = <<>> <=>
                       \A i \in DOMAIN feed' :
                           feed'[i].timestamp <= run'.gt_timestamp)]_vars

\* a second run without explicit timestamp fetched from the cursor of the
\* first and moved the cursor on
C21_Witness ==
    /\ run.runs = 2
    /\ run.timestamp = None
    /\ run.cursor = 1
    /\ run.gt_timestamp = 1
    /\ Len(run.r) = 1
    /\ last_timestamp = 2

\* the click events of the feed on an id
ClicksOn(id) == {i \in DOMAIN feed : IsClick(feed[i]) /\ feed[i].id = id}

\* C22: over runs made without an explicit timestamp, against a feed that
\* only grows with newer events, every result_click event of the feed is
\* folded exactly once, also when more events arrived than the fetch size or
\* when events share a timestamp.
C22_ConsumedExactlyOnce ==
    (run.runs > 0 /\ ~run.explicit /\ run.state = "fold" /\ run.batch = <<>>) =>
        \A id \in ResourceIds : run.folded[id] = Cardinality(ClicksOn(id))

C30_NoStaleChildren ==
    /\ (pc = "build_children") => DOMAIN cache.fachportale_with_children = {}
    /\ \A i \in CallsOf("get_collection_children", AllIds) :
          /\ i < Len(calls)
          /\ calls[i + 1] = Call("get_collection_children_by_id", calls[i].id, Inf)
    /\ (pc = "save_cache") =>
          \A p \in DOMAIN cache.fachportale_with_children :
              /\ CallsOf("get_collection_children_by_id", {p}) # {}
              /\ cache.fachportale_with_children[p] =
                     {Collection(h, backend.doc_count[h]) : h \in backend.children[p]}

\* a rebuild over a cache that held other children for a portal has stored
\* the children the backend reports
C30_Witness ==
    /\ pc = "save_cache"
    /\ \E p \in DOMAIN cache.fachportale_with_children :
          /\ p \in DOMAIN call.cache0.fachportale_with_children
          /\ call.cache0.fachportale_with_children[p]
                # cache.fachportale_with_children[p]
          /\ cache.fachportale_with_children[p] # {}

\* every attempt of a running call ends, and the backend does not stay
\* unreachable for ever
SpecRetryFair ==
    /\ SpecRetry
    /\ WF_vars(AttemptSucceeds)

\* the attempts the running or last call has made
Attempts == query.failures + (IF query.result = "response" THEN 1 ELSE 0)

RetrySafety ==
    /\ (query.result = "None") =>
          /\ MAX_CONN_RETRIES # Inf
          /\ Attempts = MAX_CONN_RETRIES - query.start + 1
    /\ (query.state = "trying" /\ MAX_CONN_RETRIES # Inf) =>
          Attempts <= MAX_CONN_RETRIES - query.start
    /\ (MAX_CONN_RETRIES = Inf /\ query.state = "returned") =>
          query.result = "response"

----------------------------------------------------------------------------
(* The comparisons of the value objects and the license classification,    *)
(* applied to operands drawn in the initial state.                          *)

InitValues ==
    /\ CacheIdle
    /\ RetryIdle
    /\ AnalyticsIdle
    /\ args \in Args
    /\ answer = NoAnswer

\* a == b, b == a, hash(a), hash(b), a < b, b < a and {a, b} of two resources
CompareResources ==
    /\ args.kind = "resources"
    /\ answer = NoAnswer
    /\ answer' = [kind |-> "resources",
                  eq |-> Eq(args.a, args.b), eq_ba |-> Eq(args.b, args.a),
                  hash_a |-> Hash(args.a), hash_b |-> Hash(args.b),
                  lt |-> Lt(args.a, args.b), gt |-> Lt(args.b, args.a),
                  set |-> SetOf(args.a, args.b)]
    /\ UNCHANGED <<args, cacheVars, retryVars, analyticsVars>>

\* a == b, a == b.key, the hashes and {a, b} of two buckets
CompareBuckets ==
    /\ args.kind = "buckets"
    /\ answer = NoAnswer
    /\ answer' = [kind |-> "buckets",
                  eq |-> BucketEq(args.a, args.b), eq_ba |-> BucketEq(args.b, args.a),
                  eq_key |-> BucketEq(args.a, PyStr(args.b.key)),
                  hash_a |-> BucketHash(args.a), hash_b |-> BucketHash(args.b),
                  set |-> BucketSetOf(args.a, args.b)]
    /\ UNCHANGED <<args, cacheVars, retryVars, analyticsVars>>

\* the license aggregation of a collection is classified
ClassifyLicenses ==
    /\ args.kind = "licenses"
    /\ answer = NoAnswer
    /\ LET r == Classify(GetStatisicCounts(args.agg), args.absent_total, args.sentinel_total)
       IN  answer' = [kind |-> "licenses", outcome |-> r.outcome,
                      category |-> r.category, summary |-> r.summary]
    /\ UNCHANGED <<args, cacheVars, retryVars, analyticsVars>>

NextValues ==
    \/ CompareResources
    \/ CompareBuckets
    \/ ClassifyLicenses

SpecValues == InitValues /\ [][NextValues]_vars

C25_BucketIdentityByKey ==
    answer.kind = "buckets" =>
        /\ answer.eq <=> args.a.key = args.b.key
        /\ answer.eq_ba = answer.eq
        /\ answer.eq => answer.hash_a = answer.hash_b
        /\ \A x, y \in answer.set : x.key = y.key => x = y

\* two buckets with one key and different counts were compared
C25_Witness ==
    /\ answer.kind = "buckets"
    /\ args.a.key = args.b.key
    /\ args.a.doc_count # args.b.doc_count
    /\ answer.eq
    /\ Cardinality(answer.set) = 1

----------------------------------------------------------------------------
(* Requests served while load_cache runs.  The route handlers of main.py   *)
(* are plain functions, which the server runs on worker threads; nothing   *)
(* in OEHElastic or Cache excludes a handler while build_cache is between  *)
(* two of its lines.                                                        *)

InitConcurrent ==
    /\ CacheIdle
    /\ RetryIdle
    /\ AnalyticsIdle
    /\ ValuesIdle

\* get_collection_children(collection_id, doc_threshold) while load_cache runs
GetCollectionChildrenDuringBuild(collection_id, doc_threshold, fail) ==
    /\ pc # "idle"
    /\ LET r == GetCollectionChildren(cache, backend, collection_id, doc_threshold, fail)
       IN  ret' = [id |-> collection_id, doc_threshold |-> doc_threshold,
                   outcome |-> r.outcome, val |-> r.val, queried |-> r.queried]
    /\ info' = NoInfo
    /\ UNCHANGED <<backend, disk, cache, pc, call, trace, outcome, calls, retryVars, analyticsVars, valueVars>>

\* get_collection_info(id) while load_cache runs
GetCollectionInfoDuringBuild(id, fail) ==
    /\ pc # "idle"
    /\ LET r == GetCollectionInfo(cache, backend, id, fail)
       IN  info' = [op |-> "get_collection_info", id |-> id, outcome |-> r.outcome,
                    val |-> r.val, none |-> FALSE, queried |-> r.queried]
    /\ ret' = NoRet
    /\ UNCHANGED <<backend, disk, cache, pc, call, trace, outcome, calls, retryVars, analyticsVars, valueVars>>

\* get_fachportale() while load_cache runs
GetFachportaleDuringBuild(fail) ==
    /\ pc # "idle"
    /\ LET r == GetFachportale(cache, backend, fail)
       IN  info' = [op |-> "get_fachportale", id |-> "x", outcome |-> r.outcome,
                    val |-> r.val, none |-> r.none, queried |-> r.queried]
    /\ ret' = NoRet
    /\ UNCHANGED <<backend, disk, cache, pc, call, trace, outcome, calls, retryVars, analyticsVars, valueVars>>

NextConcurrent ==
    \/ \E update \in BOOLEAN : LoadCache(update)
    \/ CacheLoadCache
    \/ BuildEmptyCache
    \/ BuildBuckets
    \/ BuildPortals
    \/ BuildChildren
    \/ BuildAborts
    \/ SaveMakeFile
    \/ \E written \in BOOLEAN : SaveDump(written)
    \/ \E id \in AllIds, t \in Thresholds, fail \in BOOLEAN :
          GetCollectionChildrenCall(id, t, fail)
    \/ \E id \in AllIds, fail \in BOOLEAN : GetCollectionInfoCall(id, fail)
    \/ \E fail \in BOOLEAN : GetFachportaleCall(fail)
    \/ \E id \in AllIds, t \in Thresholds, fail \in BOOLEAN :
          GetCollectionChildrenDuringBuild(id, t, fail)
    \/ \E id \in AllIds, fail \in BOOLEAN : GetCollectionInfoDuringBuild(id, fail)
    \/ \E fail \in BOOLEAN : GetFachportaleDuringBuild(fail)

SpecConcurrent == InitConcurrent /\ [][NextConcurrent]_vars

\* the cache between two lines of build_cache: emptied, or with the portals
\* assigned and the children map still empty
RebuildSteps == {"build_buckets", "build_fachportale", "build_children"}

Intermediate(c) ==
    \/ c.fachportale = {} /\ DOMAIN c.fachportale_with_children = {}
    \/ c.fachportale # {} /\ DOMAIN c.fachportale_with_children = {}

\* C27: a handler that answers while build_cache is under way does not read
\* a cache that build_cache has emptied or filled in part.
C27_RebuildIsolated ==
    [][(/\ pc \in RebuildSteps
        /\ pc' = pc
        /\ (ret' # ret \/ info' # info))
          => ~Intermediate(cache)]_vars

----------------------------------------------------------------------------
(* The ledger as a whole, and the frame of a repeat occurrence *)

RECURSIVE SumCounter(_, _)
SumCounter(counter, terms) ==
    IF terms = {} THEN 0
    ELSE LET t == CHOOSE x \in terms : TRUE
         IN  counter[t] + SumCounter(counter, terms \ {t})

\* C31: the ledger holds at most one record per id, the id of every record
\* is the clicked id of a processed result_click event, and the counts of
\* the search terms of every record add up to its clickCount.
C31_LedgerConsistency ==
    /\ \A a, b \in all_searched_materials : a.id = b.id => a = b
    /\ \A e \in all_searched_materials :
          /\ e.id \in ResourceIds
          /\ run.folded[e.id] > 0
          /\ SumCounter(e.search_strings, Terms) = e.clicks

\* C32: a repeat result_click event for an id leaves title, name, creator,
\* attributedPortals, crawler and content_url of the id's record as they
\* were, and leaves the records of all other ids as they were.
C32_RepeatFrame ==
    FoldedRepeatOccurrence =>
        /\ InLedger(all_searched_materials, run.event.id)
        /\ LET old == RecordOf(run.before, run.event.id)
               new == RecordOf(all_searched_materials, run.event.id)
           IN  /\ new.title = old.title
               /\ new.name = old.name
               /\ new.creator = old.creator
               /\ new.fps = old.fps
               /\ new.crawler = old.crawler
               /\ new.content_url = old.content_url
               /\ all_searched_materials \ {new} = run.before \ {old}

====
